---- MODULE Spec2Model ----
(***************************************************************************)
(* Wall placement (WallPlaceAction) of OpenRCT2: the Query / Execute pair, *)
(* the obstruction scan (WallCheckObstruction) and the track-edge check    *)
(* (WallCheckObstructionWithTrack, TrackIsAllowedWallEdges), over one map  *)
(* tile, its banner registry and its tile-element storage.                 *)
(*                                                                         *)
(* Heights: a request's z and GetBaseZ() are in world units, base_height   *)
(* and clearance_height of an element are in levels of COORDS_Z_STEP world *)
(* units.  Request heights are multiples of COORDS_Z_STEP.                 *)
(***************************************************************************)
EXTENDS Integers, Sequences, FiniteSets, TLC

(***************************************************************************)
(* Bounds of the model.                                                    *)
(***************************************************************************)
\* tile-element slots a world starts with, free or reclaimable, at most
MaxSlots == 1
\* size of the banner registry
MaxBanners == 1

(***************************************************************************)
(* Program constants.                                                      *)
(***************************************************************************)
COORDS_Z_STEP == 8
TILE_ELEMENT_DIRECTION_MASK == 3
TILE_ELEMENT_SLOPE_DOUBLE_HEIGHT == 16

Ok                == "Ok"
NotOwned          == "NotOwned"
InvalidParameters == "InvalidParameters"
Disallowed        == "Disallowed"
NoClearance       == "NoClearance"
NoFreeElements    == "NoFreeElements"

EDGE_SLOPE_ELEVATED  == "EDGE_SLOPE_ELEVATED"
EDGE_SLOPE_UPWARDS   == "EDGE_SLOPE_UPWARDS"
EDGE_SLOPE_DOWNWARDS == "EDGE_SLOPE_DOWNWARDS"

GAME_COMMAND_FLAG_GHOST        == "GAME_COMMAND_FLAG_GHOST"
GAME_COMMAND_FLAG_PATH_SCENERY == "GAME_COMMAND_FLAG_PATH_SCENERY"

BANNER_INDEX_NULL == 65535
RIDE_ID_NULL      == 255
\* a null pointer; no surface element, no action, no result
NullEntry         == [null |-> TRUE]
NoSurface         == [type |-> "none"]
NoAction          == [none |-> TRUE]
NoResult          == [none |-> TRUE]

\* bit `i` of the mask `m`:  m & (1 << i)
Bit(m, i) == (m \div (2 ^ i)) % 2 = 1

\* a value stored in a uint8_t
U8(n) == n % 256

(***************************************************************************)
(* The wall catalog (get_wall_entry): a plain fence, a sign-bearing wall   *)
(* that cannot stand on a slope, and a door.  Any other id is unknown.     *)
(***************************************************************************)
WALL_SCENERY_CANT_BUILD_ON_SLOPE == "WALL_SCENERY_CANT_BUILD_ON_SLOPE"
WALL_SCENERY_IS_DOOR             == "WALL_SCENERY_IS_DOOR"
WALL_SCENERY_HAS_TERNARY_COLOUR  == "WALL_SCENERY_HAS_TERNARY_COLOUR"
SCROLLING_MODE_NONE == "SCROLLING_MODE_NONE"

\* entry 0: fence, 1: sign-bearing wall, 2: door
WallCatalog ==
    (0 :> [price |-> 30, height |-> 2, flags |-> {},
                   scrolling_mode |-> SCROLLING_MODE_NONE])
 @@ (1 :> [price |-> 50, height |-> 2,
                   flags |-> {WALL_SCENERY_CANT_BUILD_ON_SLOPE, WALL_SCENERY_HAS_TERNARY_COLOUR},
                   scrolling_mode |-> "SCROLLING_MODE_SIGN"])
 @@ (2 :> [price |-> 40, height |-> 4, flags |-> {WALL_SCENERY_IS_DOOR},
                   scrolling_mode |-> SCROLLING_MODE_NONE])

get_wall_entry(wallType) ==
    IF wallType \in DOMAIN WallCatalog THEN WallCatalog[wallType] ELSE NullEntry

(***************************************************************************)
(* LandSlopeToWallSlope[slope][edge]: the wall slope of each edge of a     *)
(* surface, for the surface slopes of the model: flat (0), north and east  *)
(* corners raised (3), and the steep slope 23 (north, east and south       *)
(* raised, east doubly).                                                   *)
(***************************************************************************)
LandSlopeToWallSlope ==
    (0  :> <<{}, {}, {}, {}>>)
 @@ (3  :> <<{}, {EDGE_SLOPE_UPWARDS}, {EDGE_SLOPE_ELEVATED}, {EDGE_SLOPE_DOWNWARDS}>>)
 @@ (23 :> <<{EDGE_SLOPE_UPWARDS},
             {EDGE_SLOPE_UPWARDS, EDGE_SLOPE_ELEVATED},
             {EDGE_SLOPE_DOWNWARDS, EDGE_SLOPE_ELEVATED},
             {EDGE_SLOPE_DOWNWARDS}>>)

\* LandSlopeToWallSlope[slope][edge & 3]
WallSlopeOf(slope, edge) == LandSlopeToWallSlope[slope][(edge % 4) + 1]

(***************************************************************************)
(* Track metadata (GetTrackElementDescriptor, GetRideTypeDescriptor).      *)
(* Block is the piece's list of sequence blocks, closed by index 255.      *)
(***************************************************************************)
TRACK_SEQUENCE_FLAG_DISALLOW_DOORS   == "TRACK_SEQUENCE_FLAG_DISALLOW_DOORS"
RIDE_TYPE_FLAG_TRACK_NO_WALLS        == "RIDE_TYPE_FLAG_TRACK_NO_WALLS"
RIDE_TYPE_FLAG_ALLOW_DOORS_ON_TRACK  == "RIDE_TYPE_FLAG_ALLOW_DOORS_ON_TRACK"

Ted(allowed, props0, bankStart, bankEnd, rotBegin, rotEnd, zBegin, zEnd, block) ==
    [SequenceElementAllowedWallEdges |-> allowed, SequenceProperties0 |-> props0,
     bank_start |-> bankStart, bank_end |-> bankEnd,
     rotation_begin |-> rotBegin, rotation_end |-> rotEnd,
     z_begin |-> zBegin, z_end |-> zEnd, Block |-> block]

OneBlock  == <<[index |-> 0, z |-> 0], [index |-> 255, z |-> 0]>>
TwoBlocks == <<[index |-> 0, z |-> 0], [index |-> 1, z |-> 0], [index |-> 255, z |-> 0]>>

TrackDescriptors ==
    ("flat"    :> Ted(<<10>>, {}, 0, 0, 0, 0, 0, 0, OneBlock))
 @@ ("banked"  :> Ted(<<10>>, {}, 2, 2, 0, 0, 0, 0, OneBlock))
 @@ ("bankIn"  :> Ted(<<10>>, {}, 2, 0, 0, 0, 0, 0, OneBlock))
 @@ ("nodoors" :> Ted(<<10>>, {TRACK_SEQUENCE_FLAG_DISALLOW_DOORS}, 0, 0, 0, 0, 0, 0, OneBlock))
 @@ ("long"    :> Ted(<<10, 10>>, {}, 0, 0, 0, 0, 0, 0, TwoBlocks))
 @@ ("curve"   :> Ted(<<12>>, {}, 0, 0, 0, 1, 0, 0, OneBlock))
 @@ ("diag"    :> Ted(<<0>>, {}, 0, 0, 4, 4, 0, 0, OneBlock))
 @@ ("hill"    :> Ted(<<10>>, {}, 0, 0, 0, 0, 0, 16, OneBlock))

GetTrackElementDescriptor(trackType) == TrackDescriptors[trackType]

\* get_ride: the rides of the park, by ride index
Rides ==
    (0 :> [type |-> "coaster"])
 @@ (1 :> [type |-> "ghost_train"])
 @@ (2 :> [type |-> "maze"])

get_ride(rideIndex) == IF rideIndex \in DOMAIN Rides THEN Rides[rideIndex] ELSE NullEntry

RideTypeFlags ==
    ("coaster"     :> {})
 @@ ("ghost_train" :> {RIDE_TYPE_FLAG_ALLOW_DOORS_ON_TRACK})
 @@ ("maze"        :> {RIDE_TYPE_FLAG_TRACK_NO_WALLS})

RideTypeHasFlag(rideType, flag) == flag \in RideTypeFlags[rideType]

direction_reverse(dir) == (dir + 2) % 4

(***************************************************************************)
(* WallCheckObstructionWithTrack (rct2: 0x006E5CBA).                       *)
(* Yields [allowed, across]: the returned bool and *wallAcrossTrack.       *)
(***************************************************************************)
TrackIsAllowedWallEdges(rideType, trackType, trackSequence, direction) ==
    /\ ~RideTypeHasFlag(rideType, RIDE_TYPE_FLAG_TRACK_NO_WALLS)
    /\ Bit(GetTrackElementDescriptor(trackType).SequenceElementAllowedWallEdges[trackSequence + 1],
           direction)

\* the begin-boundary rule, taken when sequence = 0 and doors are not disallowed
DoorAtTrackBegin(edge, z0, trackElement) ==
    LET ted == GetTrackElementDescriptor(trackElement.trackType)
        trackBlock == ted.Block[trackElement.sequence + 1]
    IN  /\ ted.bank_start = 0
        /\ ~Bit(ted.rotation_begin, 2)
        /\ direction_reverse(trackElement.direction) = edge
        /\ trackElement.base_height + ((ted.z_begin - trackBlock.z) * 8) = z0

\* DoorAtTrackEnd without the test of the door's edge
DoorAtTrackEndOnAnyEdge(edge, z0, trackElement) ==
    LET ted == GetTrackElementDescriptor(trackElement.trackType)
        sequence == trackElement.sequence
    IN  /\ ted.Block[sequence + 2].index = 255
        /\ ted.bank_end = 0
        /\ ~Bit(ted.rotation_end, 2)
        /\ trackElement.base_height + ((ted.z_end - ted.Block[sequence + 1].z) * 8) = z0

\* the end-boundary rule
DoorAtTrackEnd(edge, z0, trackElement) ==
    LET ted == GetTrackElementDescriptor(trackElement.trackType)
        sequence == trackElement.sequence
    IN  /\ ted.Block[sequence + 2].index = 255
        /\ ted.bank_end = 0
        /\ ~Bit(ted.rotation_end, 2)
        /\ (trackElement.direction + ted.rotation_end) % (TILE_ELEMENT_DIRECTION_MASK + 1) = edge
        /\ trackElement.base_height + ((ted.z_end - ted.Block[sequence + 1].z) * 8) = z0

WallCheckObstructionWithTrack(edge, wall, z0, trackElement, wallAcrossTrack) ==
    LET ted == GetTrackElementDescriptor(trackElement.trackType)
        sequence == trackElement.sequence
        direction == (edge - trackElement.direction) % (TILE_ELEMENT_DIRECTION_MASK + 1)
        ride == get_ride(trackElement.rideIndex)
    IN  IF ride = NullEntry
        THEN [allowed |-> FALSE, across |-> wallAcrossTrack]
        ELSE IF TrackIsAllowedWallEdges(ride.type, trackElement.trackType, sequence, direction)
        THEN [allowed |-> TRUE, across |-> wallAcrossTrack]
        ELSE IF WALL_SCENERY_IS_DOOR \notin wall.flags
        THEN [allowed |-> FALSE, across |-> wallAcrossTrack]
        ELSE IF ~RideTypeHasFlag(ride.type, RIDE_TYPE_FLAG_ALLOW_DOORS_ON_TRACK)
        THEN [allowed |-> FALSE, across |-> wallAcrossTrack]
        ELSE IF z0 % 2 = 1
        THEN [allowed |-> FALSE, across |-> TRUE]
        ELSE IF sequence = 0 /\ TRACK_SEQUENCE_FLAG_DISALLOW_DOORS \in ted.SequenceProperties0
        THEN [allowed |-> FALSE, across |-> TRUE]
        ELSE IF sequence = 0 /\ DoorAtTrackBegin(edge, z0, trackElement)
        THEN [allowed |-> TRUE, across |-> TRUE]
        ELSE [allowed |-> DoorAtTrackEnd(edge, z0, trackElement), across |-> TRUE]

(***************************************************************************)
(* WallCheckObstruction (rct2: 0x006E5C1A): the scan of the tile's         *)
(* elements in storage order.  Yields [status, message, across].           *)
(***************************************************************************)
ScanOk(across) == [status |-> Ok, message |-> "STR_NONE", across |-> across]
ScanConflict(status, message, across) ==
    [status |-> status, message |-> message, across |-> across]

\* WallsConflict with a wall on any edge in the way
WallsConflictOnAnyEdge(edge, tileElement) == TRUE

\* the wall-against-wall test (lines 510-520): only a wall on the same edge
WallsConflict(edge, tileElement) == edge = tileElement.direction

\* TrackInTheWay letting a wall flagged as across the track through
TrackInTheWayUnlessAcross(t) == ~t.allowed /\ ~t.across

\* the track test (lines 567-570); t is what WallCheckObstructionWithTrack yields
TrackInTheWay(t) == ~t.allowed

\* LargeSceneryAllowsWall reading the mask without the offset of 8
LargeSceneryAllowsWallLowBits(edge, tileElement) ==
    LET tile == tileElement.entry.tiles[tileElement.sequence + 1]
        direction == (edge - tileElement.direction) % (TILE_ELEMENT_DIRECTION_MASK + 1)
    IN  Bit(tile.flags, direction)

\* the large-scenery test (lines 545-549): the tile's mask has the bit of the
\* rotated edge, counted from bit 8
LargeSceneryAllowsWall(edge, tileElement) ==
    LET tile == tileElement.entry.tiles[tileElement.sequence + 1]
        direction == ((edge - tileElement.direction)
                         % (TILE_ELEMENT_DIRECTION_MASK + 1)) + 8
    IN  Bit(tile.flags, direction)

\* the verdict on one element: "skip" (continue / break out of the switch),
\* "conflict" (return res), with the value of *wallAcrossTrack afterwards
ScanElement(edge, wall, z0, z1, tileElement, across) ==
    IF tileElement.type = "surface" THEN [verdict |-> "skip", across |-> across]
    ELSE IF tileElement.ghost THEN [verdict |-> "skip", across |-> across]
    ELSE IF z0 >= tileElement.clearance_height THEN [verdict |-> "skip", across |-> across]
    ELSE IF z1 <= tileElement.base_height THEN [verdict |-> "skip", across |-> across]
    ELSE IF tileElement.type = "wall"
    THEN [verdict |-> IF WallsConflict(edge, tileElement) THEN "conflict" ELSE "skip",
          across |-> across]
    ELSE IF tileElement.quadrants = 0 THEN [verdict |-> "skip", across |-> across]
    ELSE CASE tileElement.type = "entrance" -> [verdict |-> "conflict", across |-> across]
           [] tileElement.type = "path" ->
                [verdict |-> IF Bit(tileElement.edges, edge) THEN "conflict" ELSE "skip",
                 across |-> across]
           [] tileElement.type = "large_scenery" ->
                IF tileElement.entry = NullEntry
                THEN [verdict |-> "skip", across |-> across]
                ELSE [verdict |-> IF ~LargeSceneryAllowsWall(edge, tileElement)
                                  THEN "conflict" ELSE "skip",
                      across |-> across]
           [] tileElement.type = "small_scenery" ->
                [verdict |-> IF tileElement.entry # NullEntry
                                  /\ "SMALL_SCENERY_FLAG_NO_WALLS" \in tileElement.entry.flags
                             THEN "conflict" ELSE "skip",
                 across |-> across]
           [] tileElement.type = "track" ->
                LET t == WallCheckObstructionWithTrack(edge, wall, z0, tileElement, across)
                IN  [verdict |-> IF TrackInTheWay(t) THEN "conflict" ELSE "skip",
                     across |-> t.across]
           [] OTHER -> [verdict |-> "skip", across |-> across]

RECURSIVE ScanFrom(_, _, _, _, _, _, _)
ScanFrom(elements, i, edge, wall, z0, z1, across) ==
    IF i > Len(elements) THEN ScanOk(across)
    ELSE LET v == ScanElement(edge, wall, z0, z1, elements[i], across)
         IN  IF v.verdict = "conflict"
             THEN ScanConflict(NoClearance, "STR_NONE", v.across)
             ELSE ScanFrom(elements, i + 1, edge, wall, z0, z1, v.across)

\* WallCheckObstruction answering NoClearance on the map edge
WallCheckObstructionEdgeNoClearance(atEdge, elements, edge, wall, z0, z1) ==
    IF atEdge
    THEN ScanConflict(NoClearance, "STR_OFF_EDGE_OF_MAP", FALSE)
    ELSE ScanFrom(elements, 1, edge, wall, z0, z1, FALSE)

\* atEdge is map_is_location_at_edge(_loc)
WallCheckObstruction(atEdge, elements, edge, wall, z0, z1) ==
    IF atEdge
    THEN ScanConflict(InvalidParameters, "STR_OFF_EDGE_OF_MAP", FALSE)
    ELSE ScanFrom(elements, 1, edge, wall, z0, z1, FALSE)

(***************************************************************************)
(* The tile: its elements in storage order.  At most one is the surface.   *)
(***************************************************************************)
map_get_surface_element_at(elements) ==
    IF \E i \in 1..Len(elements) : elements[i].type = "surface"
    THEN elements[CHOOSE i \in 1..Len(elements) :
                     /\ elements[i].type = "surface"
                     /\ \A j \in 1..(i - 1) : elements[j].type # "surface"]
    ELSE NoSurface

GetBaseZ(element) == element.base_height * COORDS_Z_STEP

(***************************************************************************)
(* The tile-element storage: `free` slots can be handed out at once,       *)
(* `holes` more are reclaimed by a reorganisation (compaction).            *)
(* MapCheckCapacityAndReorganise yields whether one more element fits, and *)
(* the storage as the call leaves it.                                      *)
(***************************************************************************)
MapCheckCapacityAndReorganise(st) ==
    IF st.free >= 1 THEN [ok |-> TRUE, storage |-> st]
    ELSE IF st.holes > 0
    THEN [ok |-> TRUE, storage |-> [free |-> st.holes, holes |-> 0]]
    ELSE [ok |-> FALSE, storage |-> st]

\* the elements with `element` put in above those that are not higher
InsertByHeight(elements, element) ==
    LET below == {i \in 1..Len(elements) : elements[i].base_height <= element.base_height}
        k == IF below = {} THEN 0 ELSE CHOOSE i \in below : \A j \in below : j <= i
    IN  SubSeq(elements, 1, k) \o <<element>> \o SubSeq(elements, k + 1, Len(elements))

\* TileElementInsert<WallElement>(loc, 0b0000): a wall at loc.z with nothing set yet
TileElementInsert(st, elements, z) ==
    LET cap == MapCheckCapacityAndReorganise(st)
        fresh == [type |-> "wall", base_height |-> U8(z \div COORDS_Z_STEP),
                  clearance_height |-> U8(z \div COORDS_Z_STEP),
                  ghost |-> FALSE, direction |-> 0, quadrants |-> 0]
    IN  IF ~cap.ok
        THEN [ok |-> FALSE, storage |-> cap.storage, element |-> fresh]
        ELSE [ok |-> TRUE,
              storage |-> [cap.storage EXCEPT !.free = @ - 1],
              element |-> fresh]

(***************************************************************************)
(* The banner registry: a slot per banner id, free or holding a banner.    *)
(***************************************************************************)
FreeBanner == [free |-> TRUE]
BannerIds == 0..(MaxBanners - 1)

HasReachedBannerLimit(reg) == \A id \in BannerIds : reg[id] # FreeBanner

\* CreateBanner: the id of the banner created, BANNER_INDEX_NULL for nullptr
CreateBanner(reg) ==
    IF HasReachedBannerLimit(reg) THEN BANNER_INDEX_NULL
    ELSE CHOOSE id \in BannerIds :
            /\ reg[id] = FreeBanner
            /\ \A j \in BannerIds : reg[j] = FreeBanner => id <= j

(***************************************************************************)
(* Results.                                                                *)
(***************************************************************************)
\* MakeResult(status, title, message); targetHeight is the height the call
\* had resolved when it returned (Unresolved before the resolution)
Unresolved == -1

MakeResult(status, message, targetHeight) ==
    [status |-> status, message |-> message, cost |-> 0,
     targetHeight |-> targetHeight,
     baseHeight |-> 0, bannerId |-> BANNER_INDEX_NULL]

(***************************************************************************)
(* WallPlaceAction::Query.  a: the action (wallType, z, edge, flags,       *)
(* colours); env: the global flags and the map's answers for _loc.         *)
(***************************************************************************)
\* QueryResolve leaving the elevated flag among the slope flags
QueryResolveKeepingElevated(a, surfaceElement) ==
    IF a.z # 0 THEN [targetHeight |-> a.z, edgeSlope |-> {}]
    ELSE LET edgeSlope == WallSlopeOf(surfaceElement.slope, a.edge)
         IN  IF EDGE_SLOPE_ELEVATED \in edgeSlope
             THEN [targetHeight |-> GetBaseZ(surfaceElement) + 16, edgeSlope |-> edgeSlope]
             ELSE [targetHeight |-> GetBaseZ(surfaceElement), edgeSlope |-> edgeSlope]

\* height and slope resolution, Query lines 106-125
QueryResolve(a, surfaceElement) ==
    IF a.z # 0 THEN [targetHeight |-> a.z, edgeSlope |-> {}]
    ELSE LET edgeSlope == WallSlopeOf(surfaceElement.slope, a.edge)
         IN  IF EDGE_SLOPE_ELEVATED \in edgeSlope
             THEN [targetHeight |-> GetBaseZ(surfaceElement) + 16,
                   edgeSlope |-> edgeSlope \ {EDGE_SLOPE_ELEVATED}]
             ELSE [targetHeight |-> GetBaseZ(surfaceElement), edgeSlope |-> edgeSlope]

\* one of the two neighbour-corner checks of Query (lines 154-182, 185-212):
\* the wall would stand below the raised corner at newEdge
BelowRaisedCorner(surfaceElement, newEdge, targetHeight) ==
    LET slope == surfaceElement.slope
        newBaseHeight == U8(surfaceElement.base_height + 2)
        e1 == (newEdge - 1) % 4
        e2 == (e1 + 2) % 4
    IN  /\ Bit(slope, newEdge)
        /\ \/ targetHeight \div 8 < newBaseHeight
           \/ /\ (slope \div TILE_ELEMENT_SLOPE_DOUBLE_HEIGHT) % 2 = 1
              /\ Bit(slope, e1)
              /\ Bit(slope, e2)
              /\ targetHeight \div 8 < U8(newBaseHeight + 2)

\* the ownership and map checks, Query lines 76-99
QueryOwnership(a, env) ==
    IF ~env.locationValid THEN NotOwned
    ELSE IF ~env.scenarioEditor /\ GAME_COMMAND_FLAG_PATH_SCENERY \notin a.flags
            /\ ~env.sandboxMode
    THEN IF a.z = 0
         THEN IF ~env.inPark THEN NotOwned ELSE Ok
         ELSE IF ~env.owned THEN NotOwned ELSE Ok
    ELSE IF ~env.trackDesignDrawingPreview /\ env.beyondMap THEN InvalidParameters
    ELSE Ok

\* the clearance height, Query lines 232-241
QueryClearanceHeight(targetHeight, edgeSlope, wallEntry) ==
    LET c0 == U8(targetHeight \div 8)
        c1 == IF edgeSlope \cap {EDGE_SLOPE_UPWARDS, EDGE_SLOPE_DOWNWARDS} # {}
              THEN U8(c0 + 2) ELSE c0
    IN  U8(c1 + wallEntry.height)

\* QueryUnderwater without the cheat
QueryUnderwaterDespiteCheat(surfaceElement, targetHeight, env) ==
    /\ surfaceElement.waterHeight > 0
    /\ targetHeight < surfaceElement.waterHeight

\* the underwater check, Query lines 134-142
QueryUnderwater(surfaceElement, targetHeight, env) ==
    /\ surfaceElement.waterHeight > 0
    /\ targetHeight < surfaceElement.waterHeight
    /\ ~env.disableClearanceChecks

\* QueryLacksBanner never finding the registry full
QueryLacksBannerNever(wallEntry, reg) == FALSE

\* the banner check, Query lines 223-230
QueryLacksBanner(wallEntry, reg) ==
    wallEntry.scrolling_mode # SCROLLING_MODE_NONE /\ HasReachedBannerLimit(reg)

\* Query past the ownership and edge checks
QueryPlacement(a, env, elements, reg, st) ==
    LET surfaceElement == map_get_surface_element_at(elements)
    IN
    IF surfaceElement = NoSurface
    THEN [res |-> MakeResult(InvalidParameters, "STR_NONE", Unresolved), storage |-> st]
    ELSE
    LET r == QueryResolve(a, surfaceElement)
        targetHeight == r.targetHeight
        edgeSlope == r.edgeSlope
        sloped == edgeSlope \cap {EDGE_SLOPE_UPWARDS, EDGE_SLOPE_DOWNWARDS} # {}
        wallEntry == get_wall_entry(a.wallType)
        Fail(status, message) ==
            [res |-> MakeResult(status, message, targetHeight), storage |-> st]
    IN
    IF QueryUnderwater(surfaceElement, targetHeight, env)
    THEN Fail(Disallowed, "STR_CANT_BUILD_THIS_UNDERWATER")
    ELSE IF targetHeight < GetBaseZ(surfaceElement) /\ ~env.disableClearanceChecks
    THEN Fail(Disallowed, "STR_CAN_ONLY_BUILD_THIS_ABOVE_GROUND")
    ELSE IF /\ ~sloped
            /\ \/ BelowRaisedCorner(surfaceElement, (a.edge + 2) % 4, targetHeight)
               \/ BelowRaisedCorner(surfaceElement, (a.edge + 3) % 4, targetHeight)
    THEN Fail(Disallowed, "STR_CAN_ONLY_BUILD_THIS_ABOVE_GROUND")
    ELSE IF wallEntry = NullEntry
    THEN Fail(InvalidParameters, "STR_NONE")
    ELSE IF QueryLacksBanner(wallEntry, reg)
    THEN Fail(InvalidParameters, "STR_TOO_MANY_BANNERS_IN_GAME")
    ELSE IF sloped /\ WALL_SCENERY_CANT_BUILD_ON_SLOPE \in wallEntry.flags
    THEN Fail(Disallowed, "STR_ERR_UNABLE_TO_BUILD_THIS_ON_SLOPE")
    ELSE
    LET clearanceHeight == QueryClearanceHeight(targetHeight, edgeSlope, wallEntry)
        scanned == GAME_COMMAND_FLAG_PATH_SCENERY \notin a.flags /\ ~env.disableClearanceChecks
        result == IF scanned
                  THEN WallCheckObstruction(env.atEdge, elements, a.edge, wallEntry,
                                            targetHeight \div 8, clearanceHeight)
                  ELSE ScanOk(FALSE)
        cap == MapCheckCapacityAndReorganise(st)
    IN
    IF result.status # Ok
    THEN Fail(result.status, result.message)
    ELSE IF ~cap.ok
    THEN [res |-> MakeResult(NoFreeElements, "STR_TILE_ELEMENT_LIMIT_REACHED", targetHeight),
          storage |-> cap.storage]
    ELSE [res |-> [MakeResult(Ok, "STR_NONE", targetHeight) EXCEPT !.cost = wallEntry.price],
          storage |-> cap.storage]

\* Query taking the slot it only has to check for
QueryTakingSlot(a, env, elements, reg, st) ==
    LET q == IF QueryOwnership(a, env) # Ok
             THEN [res |-> MakeResult(QueryOwnership(a, env), "STR_NONE", Unresolved),
                   storage |-> st]
             ELSE IF a.edge > 3
             THEN [res |-> MakeResult(InvalidParameters, "STR_NONE", Unresolved), storage |-> st]
             ELSE QueryPlacement(a, env, elements, reg, st)
    IN  IF q.res.status = Ok
        THEN [q EXCEPT !.storage.free = @ - 1]
        ELSE q

\* yields [res, storage]: the result and the tile storage as Query leaves it
Query(a, env, elements, reg, st) ==
    IF QueryOwnership(a, env) # Ok
    THEN [res |-> MakeResult(QueryOwnership(a, env), "STR_NONE", Unresolved), storage |-> st]
    ELSE IF a.edge > 3
    THEN [res |-> MakeResult(InvalidParameters, "STR_NONE", Unresolved), storage |-> st]
    ELSE QueryPlacement(a, env, elements, reg, st)

(***************************************************************************)
(* WallPlaceAction::Execute.  Yields the result and the tile, the banner   *)
(* registry, the tile storage and the map animations as Execute leaves     *)
(* them.                                                                   *)
(***************************************************************************)
\* ExecuteResolve without the step up onto an elevated edge
ExecuteResolveWithoutStep(a, surfaceElement) ==
    IF a.z # 0 THEN [targetHeight |-> a.z, edgeSlope |-> {}]
    ELSE [targetHeight |-> GetBaseZ(surfaceElement),
          edgeSlope |-> WallSlopeOf(surfaceElement.slope, a.edge) \ {EDGE_SLOPE_ELEVATED}]

\* height and slope resolution, Execute lines 280-299
ExecuteResolve(a, surfaceElement) ==
    IF a.z # 0 THEN [targetHeight |-> a.z, edgeSlope |-> {}]
    ELSE LET edgeSlope == WallSlopeOf(surfaceElement.slope, a.edge)
         IN  IF EDGE_SLOPE_ELEVATED \in edgeSlope
             THEN [targetHeight |-> GetBaseZ(surfaceElement) + 16,
                   edgeSlope |-> edgeSlope \ {EDGE_SLOPE_ELEVATED}]
             ELSE [targetHeight |-> GetBaseZ(surfaceElement), edgeSlope |-> edgeSlope]

\* the clearance height, Execute lines 310-315
ExecuteClearanceHeight(targetHeight, edgeSlope, wallEntry) ==
    LET c0 == U8(targetHeight \div COORDS_Z_STEP)
        c1 == IF edgeSlope \cap {EDGE_SLOPE_UPWARDS, EDGE_SLOPE_DOWNWARDS} # {}
              THEN U8(c0 + 2) ELSE c0
    IN  U8(c1 + wallEntry.height)

\* the banner Execute sets up (lines 337-349)
NewBanner(closestRide) ==
    [text |-> "", colour |-> "COLOUR_WHITE", text_colour |-> "COLOUR_WHITE",
     flags |-> IF closestRide # RIDE_ID_NULL
               THEN {"BANNER_FLAG_IS_WALL", "BANNER_FLAG_LINKED_TO_RIDE"}
               ELSE {"BANNER_FLAG_IS_WALL"},
     type |-> 0, position |-> "tile", ride_index |-> closestRide]

\* the wall element once Execute has set its fields (lines 358-374)
InstalledWall(fresh, a, wallEntry, clearanceHeight, edgeSlope, wallAcrossTrack, bannerId) ==
    [type |-> "wall", base_height |-> fresh.base_height,
     clearance_height |-> clearanceHeight,
     direction |-> a.edge % (TILE_ELEMENT_DIRECTION_MASK + 1),
     quadrants |-> fresh.quadrants,
     slope |-> edgeSlope,
     primaryColour |-> a.primaryColour, secondaryColour |-> a.secondaryColour,
     tertiaryColour |-> IF WALL_SCENERY_HAS_TERNARY_COLOUR \in wallEntry.flags
                        THEN a.tertiaryColour ELSE 0,
     acrossTrack |-> wallAcrossTrack,
     entryIndex |-> a.wallType, bannerIndex |-> bannerId,
     ghost |-> GAME_COMMAND_FLAG_GHOST \in a.flags]

\* ExecuteReject with a banner created before the validation and kept
ExecuteRejectKeepingBanner(status, message, targetHeight, elements, reg, st, anims) ==
    [res |-> MakeResult(status, message, targetHeight), elements |-> elements,
     banners |-> IF CreateBanner(reg) = BANNER_INDEX_NULL THEN reg
                 ELSE [reg EXCEPT ![CreateBanner(reg)] = NewBanner(RIDE_ID_NULL)],
     storage |-> st, animations |-> anims]

\* an early return of Execute before anything is allocated (lines 288, 307,
\* 323, 334)
ExecuteReject(status, message, targetHeight, elements, reg, st, anims) ==
    [res |-> MakeResult(status, message, targetHeight), elements |-> elements,
     banners |-> reg, storage |-> st, animations |-> anims]

Execute(a, env, elements, reg, st, anims) ==
    LET Fail(status, message, th) ==
            ExecuteReject(status, message, th, elements, reg, st, anims)
        surfaceElement == map_get_surface_element_at(elements)
    IN
    IF a.z = 0 /\ surfaceElement = NoSurface
    THEN Fail(InvalidParameters, "STR_NONE", Unresolved)
    ELSE
    LET r == ExecuteResolve(a, surfaceElement)
        targetHeight == r.targetHeight
        edgeSlope == r.edgeSlope
        wallEntry == get_wall_entry(a.wallType)
    IN
    IF wallEntry = NullEntry
    THEN Fail(InvalidParameters, "STR_NONE", targetHeight)
    ELSE
    LET clearanceHeight == ExecuteClearanceHeight(targetHeight, edgeSlope, wallEntry)
        scanned == GAME_COMMAND_FLAG_PATH_SCENERY \notin a.flags /\ ~env.disableClearanceChecks
        result == IF scanned
                  THEN WallCheckObstruction(env.atEdge, elements, a.edge, wallEntry,
                                            targetHeight \div COORDS_Z_STEP, clearanceHeight)
                  ELSE ScanOk(FALSE)
        needsBanner == wallEntry.scrolling_mode # SCROLLING_MODE_NONE
        bannerId == IF needsBanner THEN CreateBanner(reg) ELSE BANNER_INDEX_NULL
        regWithBanner == IF bannerId = BANNER_INDEX_NULL THEN reg
                         ELSE [reg EXCEPT ![bannerId] = NewBanner(env.closestRide)]
        ins == TileElementInsert(st, elements, targetHeight)
    IN
    IF result.status # Ok
    THEN Fail(result.status, result.message, targetHeight)
    ELSE IF needsBanner /\ bannerId = BANNER_INDEX_NULL
    THEN Fail(InvalidParameters, "STR_TOO_MANY_BANNERS_IN_GAME", targetHeight)
    ELSE IF ~ins.ok
    THEN [res |-> MakeResult(NoFreeElements, "STR_TILE_ELEMENT_LIMIT_REACHED", targetHeight),
          elements |-> elements,
          banners |-> regWithBanner,
          storage |-> ins.storage, animations |-> anims]
    ELSE
    LET wallElement == InstalledWall(ins.element, a, wallEntry, clearanceHeight, edgeSlope,
                                     result.across, bannerId)
    IN  [res |-> [MakeResult(Ok, "STR_NONE", targetHeight) EXCEPT
                     !.cost = wallEntry.price,
                     !.baseHeight = GetBaseZ(wallElement),
                     !.bannerId = bannerId],
         elements |-> InsertByHeight(elements, wallElement),
         banners |-> regWithBanner,
         storage |-> ins.storage,
         animations |-> anims \cup {targetHeight}]

(***************************************************************************)
(* The worlds and the requests of the model.                               *)
(***************************************************************************)
Element(type, base, clearance, ghost, direction, quadrants) ==
    [type |-> type, base_height |-> base, clearance_height |-> clearance,
     ghost |-> ghost, direction |-> direction, quadrants |-> quadrants]

Surface(base, slope, water) ==
    Element("surface", base, base, FALSE, 0, 15)
        @@ [slope |-> slope, waterHeight |-> water]

FlatSurface  == Surface(2, 0, 0)
WaterSurface == Surface(2, 0, 32)
SlopeSurface == Surface(2, 3, 0)
SteepSurface == Surface(4, 23, 0)

\* the tiles without obstacles: no surface (a malformed map), or one surface
Terrains == {<<>>, <<FlatSurface>>, <<WaterSurface>>, <<SlopeSurface>>, <<SteepSurface>>}

ExistingWall(base, clearance, ghost, direction) ==
    Element("wall", base, clearance, ghost, direction, 0)
        @@ [slope |-> {}, primaryColour |-> 0, secondaryColour |-> 0, tertiaryColour |-> 0,
            acrossTrack |-> FALSE, entryIndex |-> 0, bannerIndex |-> BANNER_INDEX_NULL]

LargeSceneryEntry == [tiles |-> <<[flags |-> 1280]>>]

\* the elements a tile may hold besides its surface when a run starts
Obstacles ==
    {Element("entrance", 2, 6, g, 0, 15) : g \in BOOLEAN}
  \cup {Element("entrance", 10, 14, FALSE, 0, 15), Element("entrance", 2, 6, FALSE, 0, 0)}
  \cup {Element("path", 2, 6, FALSE, 0, 15) @@ [edges |-> e] : e \in {1, 6}}
  \cup {Element("small_scenery", 2, 6, FALSE, 0, 15) @@ [entry |-> e] :
          e \in {NullEntry, [flags |-> {}], [flags |-> {"SMALL_SCENERY_FLAG_NO_WALLS"}]}}
  \cup {Element("large_scenery", 2, 6, FALSE, 1, 15) @@ [entry |-> e, sequence |-> 0] :
          e \in {NullEntry, LargeSceneryEntry}}
  \cup {ExistingWall(2, 4, g, 0) : g \in BOOLEAN}

\* the track elements a tile may hold when a run starts
\* (every piece under the ride that allows doors, the flat piece under every
\* ride and under a ride index without a ride, and a level higher)
TrackElements ==
    {Element("track", b, b + 4, FALSE, d, 15)
        @@ [trackType |-> t, sequence |-> q, rideIndex |-> r] :
        b \in {2, 3}, d \in {0, 1}, t \in DOMAIN TrackDescriptors, q \in {0, 1}, r \in 0..3}

ValidTrackElements ==
    {e \in TrackElements :
        /\ e.sequence + 2 <= Len(GetTrackElementDescriptor(e.trackType).Block)
        /\ e.rideIndex = 1 \/ e.trackType = "flat"
        /\ e.base_height = 2 \/ (e.rideIndex = 1 /\ e.trackType = "flat")}

\* the usual state of the game: an owned tile inside the park, no cheats
NormalEnv ==
    [locationValid |-> TRUE, scenarioEditor |-> FALSE, sandboxMode |-> FALSE,
     inPark |-> TRUE, owned |-> TRUE, trackDesignDrawingPreview |-> FALSE,
     beyondMap |-> FALSE, disableClearanceChecks |-> FALSE, atEdge |-> FALSE,
     closestRide |-> RIDE_ID_NULL]

\* the usual state with at most one of its answers changed
Envs ==
    {NormalEnv}
  \cup {[NormalEnv EXCEPT ![f] = ~@] :
          f \in {"locationValid", "scenarioEditor", "sandboxMode", "inPark", "owned",
                 "trackDesignDrawingPreview", "beyondMap", "disableClearanceChecks", "atEdge"}}
  \cup {[NormalEnv EXCEPT !.closestRide = 0]}

\* the usual state, without and with the clearance checks disabled
CheatEnvs == {NormalEnv, [NormalEnv EXCEPT !.disableClearanceChecks = TRUE]}

\* the states of the game the obstacles are met in
ObstacleEnvs == CheatEnvs \cup {[NormalEnv EXCEPT !.atEdge = TRUE]}

\* a banner of the registry that stands elsewhere in the park
OtherBanner ==
    [text |-> "", colour |-> "COLOUR_WHITE", text_colour |-> "COLOUR_WHITE",
     flags |-> {}, type |-> 0, position |-> "elsewhere", ride_index |-> RIDE_ID_NULL]

EmptyRegistry == [id \in BannerIds |-> FreeBanner]

ReqHeights == {0, 16, 24, 2032}
ReqEdges == 0..4
ReqWallTypes == 0..3
ReqFlags == {{}, {GAME_COMMAND_FLAG_GHOST}, {GAME_COMMAND_FLAG_PATH_SCENERY}}

\* every catalog entry at the surface and at an explicit height on every
\* edge; the action flags, an unknown wall type, an edge out of range, a
\* door at an odd level and a height near the top of the map on fewer requests
Requests ==
    {r \in [wallType : ReqWallTypes, z : ReqHeights, edge : ReqEdges, flags : ReqFlags,
            primaryColour : {1}, secondaryColour : {2}, tertiaryColour : {3}] :
        \/ r.flags = {} /\ r.wallType <= 2 /\ r.z = 0 /\ r.edge <= 3
        \/ r.flags = {} /\ r.wallType <= 2 /\ r.z = 16 /\ r.edge \in {0, 2}
        \/ r.flags = {GAME_COMMAND_FLAG_GHOST} /\ r.wallType = 0 /\ r.z = 0 /\ r.edge <= 1
        \/ r.flags = {GAME_COMMAND_FLAG_PATH_SCENERY} /\ r.wallType <= 1 /\ r.z = 0
              /\ r.edge = 0
        \/ r.flags = {} /\ r.wallType = 2 /\ r.z = 24 /\ r.edge \in {0, 2}
        \/ r.flags = {} /\ r.wallType = 3 /\ r.z = 0 /\ r.edge = 0
        \/ r.flags = {} /\ r.wallType = 0 /\ r.z = 0 /\ r.edge = 4
        \/ r.flags = {} /\ r.wallType = 0 /\ r.z = 2032 /\ r.edge = 0}

(***************************************************************************)
(* The state machine: an action is constructed, queried and / or executed, *)
(* and its result handed back.                                             *)
(***************************************************************************)
VARIABLES env, elements, banners, storage, animations, act, pc, qres, xres

vars == <<env, elements, banners, storage, animations, act, pc, qres, xres>>

world == <<env, elements, banners, storage, animations>>

InitIdle ==
    /\ animations = {}
    /\ act = NoAction
    /\ pc = "idle"
    /\ qres = NoResult
    /\ xres = NoResult

\* terrain and permissions
InitTerrain ==
    /\ \/ env \in Envs /\ elements = <<FlatSurface>>
       \/ env \in CheatEnvs /\ elements \in Terrains
    /\ banners = EmptyRegistry
    /\ storage = [free |-> 1, holes |-> 0]

\* the resources: the tile storage and the banner registry
InitResources ==
    /\ env = NormalEnv
    /\ elements \in {<<FlatSurface>>, <<SlopeSurface>>}
    /\ banners \in [BannerIds -> {FreeBanner, OtherBanner}]
    /\ storage \in {st \in [free : 0..MaxSlots, holes : 0..MaxSlots] :
                        st.free + st.holes <= MaxSlots}

\* obstacles on the tile
InitObstacles ==
    /\ \/ env \in ObstacleEnvs /\ elements \in {<<FlatSurface, o>> : o \in Obstacles}
       \/ env = NormalEnv /\ elements \in {<<FlatSurface, o>> : o \in ValidTrackElements}
    /\ banners = EmptyRegistry
    /\ storage = [free |-> 1, holes |-> 0]

Init ==
    /\ InitIdle
    /\ \/ InitTerrain
       \/ InitResources
       \/ InitObstacles

\* WallPlaceAction::WallPlaceAction
Construct(req) ==
    /\ pc = "idle"
    /\ act' = req
    /\ pc' = "ready"
    /\ UNCHANGED <<env, elements, banners, storage, animations, qres, xres>>

QueryStep ==
    /\ pc = "ready"
    /\ LET q == Query(act, env, elements, banners, storage)
       IN  /\ qres' = q.res
           /\ storage' = q.storage
    /\ pc' = "queried"
    /\ UNCHANGED <<env, elements, banners, animations, act, xres>>

ExecuteStep ==
    /\ pc \in {"ready", "queried"}
    /\ LET x == Execute(act, env, elements, banners, storage, animations)
       IN  /\ xres' = x.res
           /\ elements' = x.elements
           /\ banners' = x.banners
           /\ storage' = x.storage
           /\ animations' = x.animations
    /\ pc' = "executed"
    /\ UNCHANGED <<env, act, qres>>

\* the result is handed back and the action is done with
Return ==
    /\ pc \in {"queried", "executed"}
    /\ act' = NoAction
    /\ pc' = "idle"
    /\ qres' = NoResult
    /\ xres' = NoResult
    /\ UNCHANGED <<env, elements, banners, storage, animations>>

Next ==
    \/ \E req \in Requests : Construct(req)
    \/ QueryStep
    \/ ExecuteStep
    \/ Return

Spec == Init /\ [][Next]_vars

(***************************************************************************)
(* Properties.                                                             *)
(***************************************************************************)
Walls == {i \in 1..Len(elements) : elements[i].type = "wall"}

Queried == pc \in {"queried", "executed"} /\ qres # NoResult
Executed == pc = "executed"
\* the step is a call of Query, of Execute
QueryCall == pc = "ready" /\ pc' = "queried"
ExecuteCall == pc # "executed" /\ pc' = "executed"

\* the target height of the action on the tile's surface: the explicit z, or
\* the surface height, a level step higher on an elevated edge
ExpectedHeight ==
    IF act.z # 0 THEN act.z
    ELSE LET surfaceElement == map_get_surface_element_at(elements)
         IN  GetBaseZ(surfaceElement)
               + (IF EDGE_SLOPE_ELEVATED \in WallSlopeOf(surfaceElement.slope, act.edge)
                  THEN 16 ELSE 0)

\* C1: when Query returned Ok, the Execute of the same action that follows
\* it on the unchanged world returns Ok too, and the wall it installs has
\* the height Query resolved: the explicit z, or the surface height plus 16
\* on an elevated edge.
C1_ExecuteAfterOkQuery ==
    (Executed /\ Queried /\ qres.status = Ok) =>
        /\ xres.status = Ok
        /\ qres.targetHeight = ExpectedHeight
        /\ xres.baseHeight = qres.targetHeight
        /\ \E i \in Walls :
              /\ GetBaseZ(elements[i]) = qres.targetHeight
              /\ elements[i].direction = act.edge
              /\ elements[i].entryIndex = act.wallType

C1_Witness ==
    /\ Executed /\ Queried /\ qres.status = Ok /\ xres.status = Ok
    /\ act.z = 0
    /\ xres.baseHeight = GetBaseZ(map_get_surface_element_at(elements)) + 16

C3_NoBannerLeaked ==
    \A id \in BannerIds :
        (banners[id] # FreeBanner /\ "BANNER_FLAG_IS_WALL" \in banners[id].flags) =>
            Cardinality({i \in Walls : elements[i].bannerIndex = id}) = 1

\* C4: an Execute that fails in its validation (no surface, unknown wall
\* type, a conflict found by the scan) leaves the tile, the tile storage,
\* the banner registry and the animations as they were.
C4_RejectedExecuteChangesNothing ==
    [][(ExecuteCall /\ xres'.status \in {InvalidParameters, NoClearance}) =>
          UNCHANGED <<elements, banners, storage, animations>>]_vars

C4_Witness ==
    /\ Executed /\ xres.status = NoClearance
    /\ get_wall_entry(act.wallType) # NullEntry
    /\ get_wall_entry(act.wallType).scrolling_mode # SCROLLING_MODE_NONE
    /\ \E id \in BannerIds : banners[id] = FreeBanner

SignWanted ==
    /\ get_wall_entry(act.wallType) # NullEntry
    /\ get_wall_entry(act.wallType).scrolling_mode # SCROLLING_MODE_NONE

\* the statuses of a call that got through its validation
Passed == {Ok, NoFreeElements}

WallsOnEdge(e) == {i \in Walls : elements[i].direction = e}

IsNoWall(tileElement) == tileElement.type # "wall"
WithoutWalls == SelectSeq(elements, IsNoWall)

\* the scan is part of the call: no cheat, no path accessory, no map edge
ScanRuns ==
    /\ ~env.disableClearanceChecks
    /\ GAME_COMMAND_FLAG_PATH_SCENERY \notin act.flags
    /\ ~env.atEdge

\* the levels [z0, z1) the action's wall takes on the tile
ActLevels ==
    LET r == QueryResolve(act, map_get_surface_element_at(elements))
    IN  [z0 |-> r.targetHeight \div COORDS_Z_STEP,
         z1 |-> QueryClearanceHeight(r.targetHeight, r.edgeSlope, get_wall_entry(act.wallType))]

\* the walls on the action's edge that are real and within the action's levels
WallsInTheWay ==
    {i \in WallsOnEdge(act.edge) :
        /\ ~elements[i].ghost
        /\ ActLevels.z0 < elements[i].clearance_height
        /\ ActLevels.z1 > elements[i].base_height}

\* the status of the step's call, and of the same call on the tile
\* without its walls
StatusOfCall == IF QueryCall THEN qres'.status ELSE xres'.status
StatusWithoutWalls ==
    IF QueryCall
    THEN Query(act, env, WithoutWalls, banners, storage).res.status
    ELSE Execute(act, env, WithoutWalls, banners, storage, animations).res.status

\* C6 (as claimed): with a wall on edge e of the tile, a placement on edge e
\* always returns NoClearance; a placement on another edge gets the result it
\* would get on the tile without walls.
C6_SameEdgeAlwaysConflicts ==
    [][((QueryCall \/ ExecuteCall) /\ act.edge <= 3) =>
          /\ WallsOnEdge(act.edge) # {} => StatusOfCall = NoClearance
          /\ WallsOnEdge(act.edge) = {} => StatusOfCall = StatusWithoutWalls]_vars

\* C6 (amended): a placement that would get through on the tile without
\* walls returns NoClearance when the scan runs and a wall on its edge is
\* real (no ghost) and within its levels; a placement on an edge without a
\* wall gets the result it would get on the tile without walls.
C6_OverlappingSameEdgeConflicts ==
    [][((QueryCall \/ ExecuteCall) /\ act.edge <= 3) =>
          /\ (StatusWithoutWalls \in Passed /\ ScanRuns /\ WallsInTheWay # {})
                => StatusOfCall = NoClearance
          /\ WallsOnEdge(act.edge) = {} => StatusOfCall = StatusWithoutWalls]_vars

C6_Witness ==
    /\ Executed /\ xres.status = NoClearance
    /\ \E i \in WallsOnEdge(act.edge) : elements[i].primaryColour = act.primaryColour
    /\ \E i \in Walls : elements[i].direction # act.edge

TrackOnTile == {i \in 1..Len(elements) : elements[i].type = "track"}

\* the action is a door across the track element t: within its levels, on an
\* edge that is not among the allowed wall edges of the piece
DoorAcross(t) ==
    /\ get_wall_entry(act.wallType) # NullEntry
    /\ WALL_SCENERY_IS_DOOR \in get_wall_entry(act.wallType).flags
    /\ ~t.ghost /\ t.quadrants # 0
    /\ ActLevels.z0 < t.clearance_height
    /\ ActLevels.z1 > t.base_height
    /\ \/ get_ride(t.rideIndex) = NullEntry
       \/ ~TrackIsAllowedWallEdges(get_ride(t.rideIndex).type, t.trackType, t.sequence,
                                   (act.edge - t.direction) % 4)

\* the door stands on the begin boundary of the piece, on its end boundary
BeginBoundary(t) ==
    LET ted == TrackDescriptors[t.trackType]
    IN  /\ t.sequence = 0
        /\ TRACK_SEQUENCE_FLAG_DISALLOW_DOORS \notin ted.SequenceProperties0
        /\ ted.bank_start = 0
        /\ act.edge = (t.direction + 2) % 4
        /\ ActLevels.z0 = t.base_height + (ted.z_begin - ted.Block[1].z) * 8
        /\ ActLevels.z0 % 2 = 0

EndBoundary(t) ==
    LET ted == TrackDescriptors[t.trackType]
    IN  /\ t.sequence + 2 = Len(ted.Block)
        /\ ted.bank_end = 0
        /\ act.edge = (t.direction + ted.rotation_end) % 4
        /\ ActLevels.z0 = t.base_height + (ted.z_end - ted.Block[t.sequence + 1].z) * 8

\* C7: a door across a track element, on an edge the piece does not allow
\* walls on, is rejected with NoClearance by Query and by Execute unless it
\* stands on the begin boundary of the piece (sequence 0 not flagged
\* disallow-doors, no begin bank, edge the reverse of the track direction,
\* even level equal to the begin height) or on its end boundary (last
\* sequence, no end bank, edge the track direction plus the end rotation,
\* level equal to the end height).
C7_DoorAcrossTrack ==
    \A i \in TrackOnTile :
        ((Queried \/ Executed) /\ ScanRuns /\ DoorAcross(elements[i])
            /\ ~BeginBoundary(elements[i]) /\ ~EndBoundary(elements[i])) =>
                /\ Queried => qres.status = NoClearance
                /\ Executed => xres.status = NoClearance

C7_Witness ==
    \E i \in TrackOnTile :
        /\ Queried /\ Executed /\ ScanRuns /\ DoorAcross(elements[i])
        /\ get_ride(elements[i].rideIndex) # NullEntry
        /\ RideTypeHasFlag(get_ride(elements[i].rideIndex).type,
                           RIDE_TYPE_FLAG_ALLOW_DOORS_ON_TRACK)
        /\ ActLevels.z0 % 2 = 1
        /\ act.edge = (elements[i].direction + 2) % 4
        /\ ActLevels.z0 = elements[i].base_height
        /\ qres.status = NoClearance /\ xres.status = NoClearance

\* C8: a Query that got past the ownership and edge checks on a tile whose
\* surface has water above the resolved target height returns Disallowed
\* with the cannot-build-underwater message while the clearance checks are
\* enabled; with the checks disabled by the cheat no Query is rejected for
\* the water.
C8_Underwater ==
    (Queried /\ qres.targetHeight # Unresolved) =>
        LET surfaceElement == map_get_surface_element_at(elements)
        IN  /\ (surfaceElement.waterHeight > 0
                  /\ qres.targetHeight < surfaceElement.waterHeight
                  /\ ~env.disableClearanceChecks)
                  => /\ qres.status = Disallowed
                     /\ qres.message = "STR_CANT_BUILD_THIS_UNDERWATER"
            /\ env.disableClearanceChecks => qres.message # "STR_CANT_BUILD_THIS_UNDERWATER"

C8_Witness ==
    /\ pc = "queried" /\ qres.status = Disallowed
    /\ qres.message = "STR_CANT_BUILD_THIS_UNDERWATER"
    /\ map_get_surface_element_at(elements).waterHeight > qres.targetHeight

\* the levels the scan is asked about
ScanLevels == {2, 3, 4, 254}

\* the scan for the action's wall at level z0 on the world as it is
ScanAt(atEdge, tile, z0) ==
    WallCheckObstruction(atEdge, tile, act.edge, get_wall_entry(act.wallType),
                         z0, U8(z0 + get_wall_entry(act.wallType).height))

\* C9 (as claimed): the status of the obstruction scan is Ok, Disallowed or
\* NoClearance, and on the map edge it is Disallowed or NoClearance.
C9_ScanStatusesAsClaimed ==
    (act # NoAction /\ get_wall_entry(act.wallType) # NullEntry) =>
        \A z0 \in ScanLevels :
            /\ ScanAt(env.atEdge, elements, z0).status \in {Ok, Disallowed, NoClearance}
            /\ env.atEdge =>
                  ScanAt(env.atEdge, elements, z0).status \in {Disallowed, NoClearance}

\* C9 (amended): the status of the obstruction scan is Ok or NoClearance on
\* a tile inside the map, and InvalidParameters (off edge of map) on the map
\* edge, whatever elements the tile holds.
C9_ScanStatuses ==
    (act # NoAction /\ get_wall_entry(act.wallType) # NullEntry) =>
        \A z0 \in ScanLevels :
            /\ ~env.atEdge => ScanAt(FALSE, elements, z0).status \in {Ok, NoClearance}
            /\ ScanAt(TRUE, elements, z0) = ScanAt(TRUE, <<>>, z0)
            /\ ScanAt(TRUE, elements, z0).status = InvalidParameters
            /\ ScanAt(TRUE, elements, z0).message = "STR_OFF_EDGE_OF_MAP"

C9_Witness ==
    /\ Executed /\ env.atEdge /\ Len(elements) > 1
    /\ xres.status = InvalidParameters /\ xres.message = "STR_OFF_EDGE_OF_MAP"

\* C10: no wall whose catalog entry has the cannot-build-on-slope flag
\* stands on the tile with an upward or downward edge slope: Execute rejects
\* such a placement as Query does.
C10_NoSlopedWallForbiddingSlope ==
    \A i \in Walls :
        (/\ get_wall_entry(elements[i].entryIndex) # NullEntry
         /\ WALL_SCENERY_CANT_BUILD_ON_SLOPE \in get_wall_entry(elements[i].entryIndex).flags)
            => elements[i].slope \cap {EDGE_SLOPE_UPWARDS, EDGE_SLOPE_DOWNWARDS} = {}

LargeSceneryOnTile == {i \in 1..Len(elements) : elements[i].type = "large_scenery"}

IsNoLargeScenery(tileElement) == tileElement.type # "large_scenery"
WithoutLargeScenery == SelectSeq(elements, IsNoLargeScenery)

\* the status of the step's call on the tile without its large scenery
StatusWithoutLargeScenery ==
    IF QueryCall
    THEN Query(act, env, WithoutLargeScenery, banners, storage).res.status
    ELSE Execute(act, env, WithoutLargeScenery, banners, storage, animations).res.status

\* the large-scenery element l is examined by the scan of the action: real,
\* within the action's levels, occupying quadrants, with a known entry
LargeSceneryExamined(l) ==
    /\ ~l.ghost /\ l.quadrants # 0 /\ l.entry # NullEntry
    /\ ActLevels.z0 < l.clearance_height
    /\ ActLevels.z1 > l.base_height

\* bit ((edge - element direction) mod 4) + 8 of the flag mask of l's tile
RotatedEdgeBit(l) ==
    Bit(l.entry.tiles[l.sequence + 1].flags, ((act.edge - l.direction) % 4) + 8)

\* C11 (as claimed): a large-scenery element the scan examines conflicts with
\* the wall when the bit of the rotated edge (plus 8) is set in its tile's
\* mask, and does not block the wall when that bit is clear.
C11_LargeSceneryBlocksWhenBitSet ==
    [][((QueryCall \/ ExecuteCall) /\ StatusWithoutLargeScenery \in Passed /\ ScanRuns) =>
          \A i \in LargeSceneryOnTile :
              LargeSceneryExamined(elements[i]) =>
                  /\ RotatedEdgeBit(elements[i]) => StatusOfCall = NoClearance
                  /\ ~RotatedEdgeBit(elements[i]) => StatusOfCall = StatusWithoutLargeScenery]_vars

\* C11 (amended): a large-scenery element the scan examines conflicts with
\* the wall (NoClearance) when the bit of the rotated edge (plus 8) is clear
\* in its tile's mask, and does not block the wall when that bit is set.
C11_LargeSceneryBlocksWhenBitClear ==
    [][((QueryCall \/ ExecuteCall) /\ StatusWithoutLargeScenery \in Passed /\ ScanRuns) =>
          \A i \in LargeSceneryOnTile :
              LargeSceneryExamined(elements[i]) =>
                  /\ ~RotatedEdgeBit(elements[i]) => StatusOfCall = NoClearance
                  /\ RotatedEdgeBit(elements[i]) => StatusOfCall = StatusWithoutLargeScenery]_vars

C11_Witness ==
    /\ Executed /\ Queried /\ ScanRuns
    /\ \E i \in LargeSceneryOnTile :
          LargeSceneryExamined(elements[i]) /\ ~RotatedEdgeBit(elements[i])
    /\ qres.status = NoClearance /\ xres.status = NoClearance

\* the track element t is examined by the scan of the action, as the only
\* track element of the tile
TrackExamined(t) ==
    /\ Cardinality(TrackOnTile) = 1
    /\ get_wall_entry(act.wallType) # NullEntry
    /\ ~t.ghost /\ t.quadrants # 0
    /\ ActLevels.z0 < t.clearance_height
    /\ ActLevels.z1 > t.base_height

\* what the track-edge check answers for the action and the track element t
TrackEdgeCheck(t) ==
    WallCheckObstructionWithTrack(act.edge, get_wall_entry(act.wallType), ActLevels.z0, t, FALSE)

IsNoTrack(tileElement) == tileElement.type # "track"
WithoutTrack == SelectSeq(elements, IsNoTrack)

\* the action's Query gets through on the tile without its track
QueryPassesWithoutTrack ==
    Query(act, env, WithoutTrack, banners, storage).res.status \in Passed

\* the walls of the tile that the executed action can have installed
InstalledByAct ==
    {i \in WallsOnEdge(act.edge % 4) :
        /\ GetBaseZ(elements[i]) = xres.baseHeight
        /\ elements[i].entryIndex = act.wallType
        /\ elements[i].primaryColour = act.primaryColour}

\* C12 (as claimed): when the track-edge check answers not-allowed for a
\* track element the scan examines, the call returns a conflict unless the
\* check flagged the wall as a door across the track; when it did, the
\* placement goes ahead and the installed wall carries the across-track flag.
C12_FlaggedDoorProceeds ==
    \A i \in TrackOnTile :
        (Executed /\ act.edge <= 3 /\ ScanRuns /\ TrackExamined(elements[i])
            /\ ~TrackEdgeCheck(elements[i]).allowed) =>
                IF TrackEdgeCheck(elements[i]).across
                THEN /\ xres.status \in Passed
                     /\ \A w \in InstalledByAct : elements[w].acrossTrack
                ELSE xres.status = NoClearance

\* C12 (amended): when the track-edge check answers not-allowed for a track
\* element the scan examines, Execute returns NoClearance, and so does a
\* Query that would get through without the track, whether or not the check
\* flagged the wall as a door across the track; a placement
\* goes ahead only when the check answers allowed, and the wall Execute then
\* installs carries the across-track flag exactly when the check set it (a
\* door let through on a boundary of the piece).
C12_NotAllowedAlwaysConflicts ==
    \A i \in TrackOnTile :
        (act # NoAction /\ act.edge <= 3 /\ ScanRuns /\ TrackExamined(elements[i])) =>
            /\ ~TrackEdgeCheck(elements[i]).allowed =>
                  /\ (Queried /\ QueryPassesWithoutTrack) => qres.status = NoClearance
                  /\ Executed => xres.status = NoClearance
            /\ (Executed /\ xres.status = Ok) =>
                  /\ TrackEdgeCheck(elements[i]).allowed
                  /\ InstalledByAct # {}
                  /\ \A w \in InstalledByAct :
                        elements[w].acrossTrack = TrackEdgeCheck(elements[i]).across

C12_Witness ==
    \E i \in TrackOnTile :
        /\ Executed /\ act.edge <= 3 /\ ScanRuns /\ TrackExamined(elements[i])
        /\ ~TrackEdgeCheck(elements[i]).allowed
        /\ TrackEdgeCheck(elements[i]).across
        /\ xres.status = NoClearance
        /\ Walls = {}

\* a door let through on a boundary of the piece stands on the tile, flagged
C12_AcrossDoorInstalled ==
    \E i \in TrackOnTile :
        /\ Executed /\ xres.status = Ok /\ TrackExamined(elements[i])
        /\ \E w \in InstalledByAct : elements[w].acrossTrack

\* the slope flags of the action on the tile's surface: none with an
\* explicit z, else the slope table's flags for the edge without the
\* elevated flag
ExpectedSlope ==
    IF act.z # 0 THEN {}
    ELSE WallSlopeOf(map_get_surface_element_at(elements).slope, act.edge)
            \ {EDGE_SLOPE_ELEVATED}

\* C13: Query and Execute resolve the height alike, from the request and
\* the surface only: with z = 0 the surface height, plus 16 exactly when
\* the slope table has the elevated flag for the edge, and the table's flags
\* without the elevated flag; with another z that z and no flags.  The
\* heights both calls report and the slope of the installed wall are these.
C13_HeightResolution ==
    (act # NoAction /\ (act.z # 0 \/ map_get_surface_element_at(elements) # NoSurface)) =>
        LET surfaceElement == map_get_surface_element_at(elements)
            q == QueryResolve(act, surfaceElement)
            x == ExecuteResolve(act, surfaceElement)
        IN  /\ q = x
            /\ q.targetHeight = ExpectedHeight
            /\ q.edgeSlope = ExpectedSlope
            /\ EDGE_SLOPE_ELEVATED \notin q.edgeSlope
            /\ (Queried /\ qres.targetHeight # Unresolved) =>
                  qres.targetHeight = ExpectedHeight
            /\ (Executed /\ xres.targetHeight # Unresolved) =>
                  xres.targetHeight = ExpectedHeight
            /\ (Executed /\ xres.status = Ok) =>
                  /\ xres.baseHeight = ExpectedHeight
                  /\ InstalledByAct # {}
                  /\ \A w \in InstalledByAct : elements[w].slope = ExpectedSlope

C13_Witness ==
    /\ Executed /\ Queried /\ qres.status = Ok /\ xres.status = Ok
    /\ act.z = 0
    /\ {EDGE_SLOPE_ELEVATED, EDGE_SLOPE_UPWARDS}
          \subseteq WallSlopeOf(map_get_surface_element_at(elements).slope, act.edge)
    /\ qres.targetHeight = xres.baseHeight
    /\ \E w \in InstalledByAct : elements[w].slope = {EDGE_SLOPE_UPWARDS}

\* the clearance height of the action's wall as an exact integer: the level
\* of the target height, 2 more on a sloped edge, and the wall's own height
ExactClearanceHeight ==
    (ExpectedHeight \div COORDS_Z_STEP)
      + (IF ExpectedSlope \cap {EDGE_SLOPE_UPWARDS, EDGE_SLOPE_DOWNWARDS} # {} THEN 2 ELSE 0)
      + get_wall_entry(act.wallType).height

\* C14: for a request that Query or Execute accepts, the clearance height
\* they compute is the exact sum (no wrap-around modulo 256), so it lies
\* above the level of the target height, and every wall on the tile has its
\* clearance height above its base height.
C14_ClearanceHeightExact ==
    /\ \A i \in Walls : elements[i].clearance_height > elements[i].base_height
    /\ ((Queried /\ qres.status = Ok) \/ (Executed /\ xres.status = Ok)) =>
            /\ QueryClearanceHeight(ExpectedHeight, ExpectedSlope, get_wall_entry(act.wallType))
                  = ExactClearanceHeight
            /\ ExecuteClearanceHeight(ExpectedHeight, ExpectedSlope, get_wall_entry(act.wallType))
                  = ExactClearanceHeight
            /\ ActLevels.z0 < ActLevels.z1

====
